---- MODULE Spec2Model ----
(***************************************************************************)
(* Blackjack engine of BartoBOT (blackjack_manager.py, blackjack_stats.py) *)
(* and the `blackjack` command that drives it (command_handler.py); the    *)
(* ticket workflow of BartoBOT (ticket_manager.py).                        *)
(*                                                                         *)
(* The specifications share the state:                                     *)
(*   Spec      the public methods of BlackjackManager called in any order, *)
(*             each call running to completion (stand without a message    *)
(*             never suspends);                                            *)
(*   SpecCmd   the `blackjack` command coroutine of every player, with its *)
(*             suspension points, so that the coroutines of different      *)
(*             players interleave as the event loop interleaves them;      *)
(*   SpecScore _calculate_hand_value and _is_blackjack applied to every    *)
(*             list of at most MaxHandLen cards, in every order;           *)
(*   SpecShoe  _draw_card called again and again, through the exhaustion   *)
(*             of the shoe;                                                *)
(*   SpecIO    Spec with an end_game whose write of the stats file fails;  *)
(*   SpecDealer the dealer loop of a paced stand, one iteration per step,  *)
(*             on the shoes that keep the dealer drawing longest;          *)
(*   SpecStart start_game on every combination of four ranks;              *)
(*   SpecTicket the reaction and button handlers of TicketManager, with    *)
(*             their suspension points, two handlers in flight at a time.  *)
(*                                                                         *)
(* random.shuffle is a choice among the permutations of ShuffleTable; the  *)
(* deck is the list of the code, popped from its end.                      *)
(***************************************************************************)
EXTENDS Integers, Sequences, FiniteSets, TLC

(* ---- bounds ---------------------------------------------------------- *)
\* number of outcomes of random.shuffle that are explored
NumShuffles == 2
\* at most this many sessions are started, all players together
MaxGames == 3

\* at most this many ticket channels are created
MaxTickets == 2

\* ctx.author.id of the users that play, and user.id of those that open tickets
Players == {7, 12}

\* the event handler tasks of the bot that can be in flight together
Handlers == {"a", "b"}

VARIABLES
  games,        \* BlackjackManager.games : player id -> game_state dict
  deck,         \* BlackjackManager.deck  : list of cards, pop() takes the last
  stats,        \* BlackjackStats.stats   : str(player id) -> counters
  stats_file,   \* content of blackjack_stats.json, "absent" before the first save
  pc,           \* position of each player's `blackjack` coroutine
  player_value, \* local player_value of each player's suspended stand(), 0 outside it
  started,      \* history: sessions of each player that were started
  terminated,   \* history: sessions of each player that reached a terminal status
  ended,        \* history: sessions of each player that were removed from the store
  last,         \* history: the call made by the last step and what it returned
  hand_arg,     \* the list of cards handed to _calculate_hand_value / _is_blackjack
  scored,       \* what they returned for it, NotScored before the call
  stand_from,   \* history: the session and the deck when each player's running stand(id, message) began
  tickets,      \* TicketManager.tickets : number n of the id 'ticket-n' -> ticket dict
  tickets_file, \* content of tickets.json, "absent" before the first save
  last_ticket_number,    \* TicketManager.last_ticket_number
  transcript_channel_id, \* TicketManager.transcript_channel_id, "None" or "log"
  channels,     \* the guild: the ticket channels that exist, by ticket number
  log_channel,  \* the guild: whether bot.get_channel finds the transcript channel
  transcripts,  \* history: the transcript messages sent for each ticket
  closes,       \* history: the times each ticket's status was set to 'closed'
  handler       \* position and locals of each handler task

\* the variables of the ticket workflow
ticket_vars == <<tickets, tickets_file, last_ticket_number, transcript_channel_id, channels,
                 log_channel, transcripts, closes, handler>>

vars == <<games, deck, stats, stats_file, pc, player_value, started, terminated, ended, last,
          hand_arg, scored, stand_from, ticket_vars>>

(* ---- cards ----------------------------------------------------------- *)
suits == <<"Hearts", "Diamonds", "Clubs", "Spades">>
values == <<"2", "3", "4", "5", "6", "7", "8", "9", "10", "J", "Q", "K", "A">>

\* int(self.value) for the numeral ranks
IntOf(value) == CHOOSE n \in 2..10 : ToString(n) = value

\* Card._get_numeric_value
GetNumericValue(value) ==
  IF value \in {"J", "Q", "K"} THEN 10
  ELSE IF value = "A" THEN 11
  ELSE IntOf(value)

\* Card.__init__
Card(suit, value) ==
  [suit |-> suit, value |-> value, numeric_value |-> GetNumericValue(value)]

\* the None that _draw_card returns when the deck is still empty after _create_deck
NoCard == [suit |-> "None", value |-> "None", numeric_value |-> 0]

\* [Card(suit, value) for suit in suits for value in values]
FullDeck == [i \in 1..(Len(suits) * Len(values)) |->
               Card(suits[((i - 1) \div Len(values)) + 1],
                    values[((i - 1) % Len(values)) + 1])]

\* Outcomes of random.shuffle on the 52 positions: position i of the shuffled
\* list holds element ShuffleTable[k][i] of the list before the shuffle.
ShuffleTable == <<
  <<19, 32, 33, 11, 16, 3, 6, 5, 10, 35, 23, 7, 46, 29, 1, 51, 22, 31, 38, 30, 36, 28, 45, 40, 4, 37, 50, 41, 47, 24, 49, 18, 43, 15, 25, 14, 13, 2, 20, 42, 39, 9, 21, 48, 8, 27, 52, 12, 26, 44, 17, 34>>,
  <<5, 8, 49, 34, 17, 29, 24, 44, 10, 42, 3, 27, 31, 48, 20, 30, 19, 43, 18, 25, 21, 33, 14, 38, 1, 46, 35, 12, 40, 41, 23, 6, 39, 45, 16, 37, 4, 50, 32, 22, 52, 36, 26, 51, 11, 13, 2, 28, 15, 47, 7, 9>>,
  <<18, 26, 8, 32, 40, 12, 6, 5, 2, 15, 23, 44, 49, 31, 41, 10, 20, 39, 14, 11, 43, 4, 27, 50, 1, 16, 13, 48, 42, 28, 24, 3, 17, 29, 51, 30, 52, 36, 37, 38, 25, 45, 46, 34, 33, 35, 19, 22, 21, 47, 7, 9>>,
  <<40, 17, 48, 23, 45, 42, 34, 2, 30, 16, 47, 4, 11, 8, 24, 31, 43, 25, 7, 36, 1, 38, 46, 14, 9, 6, 35, 13, 27, 3, 5, 20, 21, 15, 22, 18, 32, 29, 33, 41, 26, 49, 52, 51, 37, 50, 28, 44, 39, 10, 19, 12>> >>

\* a shuffle that picks with repetition instead of permuting
ShuffleSample(d, k) == [i \in 1..Len(d) |-> d[ShuffleTable[k][((i * i) % Len(d)) + 1]]]

\* random.shuffle(self.deck), outcome number k
Shuffle(d, k) == [i \in 1..Len(d) |-> d[ShuffleTable[k][i]]]

\* BlackjackManager._create_deck : the values self.deck can have afterwards
CreateDeck == { Shuffle(FullDeck, k) : k \in 1..NumShuffles }

(* ---- hand scorer ------------------------------------------------------ *)
RECURSIVE SumNonAces(_)
SumNonAces(hand) ==
  IF hand = <<>> THEN 0
  ELSE (IF hand[1].value = "A" THEN 0 ELSE hand[1].numeric_value)
       + SumNonAces(Tail(hand))

CountAces(hand) == Cardinality({i \in 1..Len(hand) : hand[i].value = "A"})

\* the loop `for _ in range(aces)` : <<final_value, soft_aces>>
RECURSIVE AceLoop(_, _, _)
AceLoop(aces, final_value, soft_aces) ==
  IF aces = 0 THEN <<final_value, soft_aces>>
  ELSE IF final_value + 11 <= 21
       THEN AceLoop(aces - 1, final_value + 11, soft_aces + 1)
       ELSE AceLoop(aces - 1, final_value + 1, soft_aces)

\* a scorer that decides each Ace where it sits in the hand
RECURSIVE InOrder(_, _, _)
InOrder(hand, final_value, soft_aces) ==
  IF hand = <<>> THEN <<final_value, soft_aces>>
  ELSE IF hand[1].value = "A"
       THEN IF final_value + 11 <= 21
            THEN InOrder(Tail(hand), final_value + 11, soft_aces + 1)
            ELSE InOrder(Tail(hand), final_value + 1, soft_aces)
       ELSE InOrder(Tail(hand), final_value + hand[1].numeric_value, soft_aces)

CalculateHandValueInOrder(hand) == InOrder(hand, 0, 0)

\* BlackjackManager._calculate_hand_value(hand, count_aces=True)
CalculateHandValueAces(hand) == AceLoop(CountAces(hand), SumNonAces(hand), 0)

\* BlackjackManager._calculate_hand_value(hand)
CalculateHandValue(hand) == CalculateHandValueAces(hand)[1]

\* _is_blackjack that forgets the length test
IsBlackjackAnyLength(hand) == CalculateHandValue(hand) = 21

\* BlackjackManager._is_blackjack
IsBlackjack(hand) == Len(hand) = 2 /\ CalculateHandValue(hand) = 21

\* an up-card test that looks for ten-valued cards only
HasTen(card) == card.numeric_value = 10

\* BlackjackManager._has_ten_or_ace
HasTenOrAce(card) == card.numeric_value >= 10 \/ card.value = "A"

(* ---- shoe -------------------------------------------------------------- *)
\* _draw_card without the refill of lines 64-65
DrawCardNoRefill(d) ==
  { [card |-> IF d # <<>> THEN d[Len(d)] ELSE NoCard,
     deck |-> IF d # <<>> THEN SubSeq(d, 1, Len(d) - 1) ELSE d] }

\* BlackjackManager._draw_card : the possible <<card returned, deck afterwards>>
DrawCard(d) ==
  { [card |-> IF dd # <<>> THEN dd[Len(dd)] ELSE NoCard,
     deck |-> IF dd # <<>> THEN SubSeq(dd, 1, Len(dd) - 1) ELSE dd]
    : dd \in (IF d = <<>> THEN CreateDeck ELSE {d}) }

(* ---- engine: pure parts of the operations ------------------------------ *)
\* start_game that skips the dealer check once the player has a natural
StartStatusPlayerFirst(player_hand, dealer_hand) ==
  IF IsBlackjack(player_hand) THEN "player_win"
  ELSE IF IsBlackjack(dealer_hand) THEN "dealer_win" ELSE "playing"

\* start_game that looks for a natural in the dealer's hand only
StartStatusDealerOnly(player_hand, dealer_hand) ==
  IF IsBlackjack(dealer_hand)
  THEN IF IsBlackjack(player_hand) THEN "tie" ELSE "dealer_win"
  ELSE "playing"

\* start_game, lines 86-109: the status the new game_state gets
StartStatus(player_hand, dealer_hand) ==
  IF IsBlackjack(player_hand)
  THEN IF HasTenOrAce(dealer_hand[1])
       THEN IF IsBlackjack(dealer_hand) THEN "tie" ELSE "player_win"
       ELSE "player_win"
  ELSE IF IsBlackjack(dealer_hand) THEN "dealer_win" ELSE "playing"

\* start_game that deals the first two cards to the dealer
NewGameDealerFirst(c1, c2, c3, c4) ==
  [player_hand |-> <<c3, c4>>,
   dealer_hand |-> <<c1, c2>>,
   status |-> StartStatus(<<c3, c4>>, <<c1, c2>>)]

\* start_game, lines 83-93: the game_state built from the four drawn cards
NewGame(c1, c2, c3, c4) ==
  [player_hand |-> <<c1, c2>>,
   dealer_hand |-> <<c3, c4>>,
   status |-> StartStatus(<<c1, c2>>, <<c3, c4>>)]

\* start_game, lines 80-93: the possible <<game_state, deck afterwards>>
Deal(d) ==
  UNION { UNION { UNION { UNION { { [game |-> NewGame(c1.card, c2.card, c3.card, c4.card),
                                     deck |-> c4.deck]
                                    : c4 \in DrawCard(c3.deck) }
                                  : c3 \in DrawCard(c2.deck) }
                          : c2 \in DrawCard(c1.deck) }
                  : c1 \in DrawCard(d0) }
          : d0 \in (IF d = <<>> THEN CreateDeck ELSE {d}) }

\* a dealer that draws until bust
DealerStandsOnBust(dealer_value, soft_aces) == dealer_value > 21

\* a dealer that hits a soft 17
DealerStandsHard17(dealer_value, soft_aces) ==
  dealer_value > 17 \/ (dealer_value = 17 /\ soft_aces = 0)

\* stand, lines 156-160: the dealer stands on any 17, soft or hard
DealerStands(dealer_value, soft_aces) == dealer_value >= 17

\* stand, lines 155-173 without a message: the possible <<dealer hand, deck>>
\* when the loop is left
RECURSIVE DealerLoop(_, _)
DealerLoop(dealer_hand, d) ==
  IF DealerStands(CalculateHandValueAces(dealer_hand)[1],
                  CalculateHandValueAces(dealer_hand)[2])
  THEN { [hand |-> dealer_hand, deck |-> d] }
  ELSE UNION { IF o.card = NoCard
               THEN { [hand |-> dealer_hand, deck |-> o.deck] }
               ELSE DealerLoop(Append(dealer_hand, o.card), o.deck)
               : o \in DrawCard(d) }

\* a resolution that gives ties to the dealer
ResolveDealerTakesTies(dealer_value, p_value) ==
  IF dealer_value > 21 THEN "player_win"
  ELSE IF dealer_value >= p_value THEN "dealer_win"
  ELSE "player_win"

\* stand, lines 176-185: the status from the final values
Resolve(dealer_value, p_value) ==
  IF dealer_value > 21 THEN "player_win"
  ELSE IF dealer_value > p_value THEN "dealer_win"
  ELSE IF dealer_value < p_value THEN "player_win"
  ELSE "tie"

\* stand(player_id) on a playing game: the possible <<game, deck afterwards>>
StandOn(game, d) ==
  { [game |-> [game EXCEPT !.dealer_hand = o.hand,
                           !.status = Resolve(CalculateHandValue(o.hand),
                                              CalculateHandValue(game.player_hand))],
     deck |-> o.deck]
    : o \in DealerLoop(game.dealer_hand, d) }

\* hit that leaves a player at 21 in play instead of standing
HitOnNoAutoStand(game, d) ==
  UNION { IF o.card = NoCard
          THEN { [game |-> game, deck |-> o.deck, ret |-> "None"] }
          ELSE LET g1 == [game EXCEPT !.player_hand = Append(@, o.card)]
                   pv == CalculateHandValue(g1.player_hand)
               IN  IF pv > 21
                   THEN { [game |-> [g1 EXCEPT !.status = "dealer_win"],
                           deck |-> o.deck, ret |-> "game"] }
                   ELSE { [game |-> g1, deck |-> o.deck, ret |-> "game"] }
          : o \in DrawCard(d) }

\* hit whose bust test is off by one
HitOnLateBust(game, d) ==
  UNION { IF o.card = NoCard
          THEN { [game |-> game, deck |-> o.deck, ret |-> "None"] }
          ELSE LET g1 == [game EXCEPT !.player_hand = Append(@, o.card)]
                   pv == CalculateHandValue(g1.player_hand)
               IN  IF pv > 22
                   THEN { [game |-> [g1 EXCEPT !.status = "dealer_win"],
                           deck |-> o.deck, ret |-> "game"] }
                   ELSE IF pv = 21
                   THEN { [game |-> s.game, deck |-> s.deck, ret |-> "game"]
                          : s \in StandOn(g1, o.deck) }
                   ELSE { [game |-> g1, deck |-> o.deck, ret |-> "game"] }
          : o \in DrawCard(d) }

\* hit, lines 122-135 on a playing game: the possible <<game, deck, returned>>
HitOn(game, d) ==
  UNION { IF o.card = NoCard
          THEN { [game |-> game, deck |-> o.deck, ret |-> "None"] }
          ELSE LET g1 == [game EXCEPT !.player_hand = Append(@, o.card)]
                   pv == CalculateHandValue(g1.player_hand)
               IN  IF pv > 21
                   THEN { [game |-> [g1 EXCEPT !.status = "dealer_win"],
                           deck |-> o.deck, ret |-> "game"] }
                   ELSE IF pv = 21
                   THEN { [game |-> s.game, deck |-> s.deck, ret |-> "game"]
                          : s \in StandOn(g1, o.deck) }
                   ELSE { [game |-> g1, deck |-> o.deck, ret |-> "game"] }
          : o \in DrawCard(d) }

(* ---- stats ledger ------------------------------------------------------- *)
\* str(player_id)
Str(player_id) == ToString(player_id)

ZeroRecord == [wins |-> 0, losses |-> 0, draws |-> 0]

\* get_player_stats that stores a fresh record whether or not one exists
GetPlayerStatsReset(st, file, key) ==
  LET st1 == (key :> ZeroRecord) @@ st
  IN  [stats |-> st1, file |-> st1]

\* BlackjackStats.get_player_stats : <<stats, file>> afterwards
GetPlayerStats(st, file, key) ==
  IF key \notin DOMAIN st
  THEN LET st1 == (key :> ZeroRecord) @@ st
       IN  [stats |-> st1, file |-> st1]
  ELSE [stats |-> st, file |-> file]

\* update_stats, lines 40-45: the record after the increment
Increment(record, game_result) ==
  IF game_result = "player_win" THEN [record EXCEPT !.wins = @ + 1]
  ELSE IF game_result = "dealer_win" THEN [record EXCEPT !.losses = @ + 1]
  ELSE IF game_result = "tie" THEN [record EXCEPT !.draws = @ + 1]
  ELSE record

\* update_stats that applies the increment twice
UpdateStatsTwice(st, file, key, game_result) ==
  LET g   == GetPlayerStats(st, file, key)
      st2 == [g.stats EXCEPT ![key] = Increment(Increment(@, game_result), game_result)]
  IN  [stats |-> st2, file |-> st2]

\* BlackjackStats.update_stats : <<stats, file>> afterwards
UpdateStats(st, file, key, game_result) ==
  LET g   == GetPlayerStats(st, file, key)
      st2 == [g.stats EXCEPT ![key] = Increment(@, game_result)]
  IN  [stats |-> st2, file |-> st2]

\* end_game that forgets the del of line 227
EndGameOnKeepSession(gm, st, file, player_id) ==
  IF player_id \in DOMAIN gm
  THEN LET u == IF gm[player_id].status # "playing"
                THEN UpdateStats(st, file, Str(player_id), gm[player_id].status)
                ELSE [stats |-> st, file |-> file]
       IN  [games |-> gm, stats |-> u.stats, file |-> u.file]
  ELSE [games |-> gm, stats |-> st, file |-> file]

\* end_game that calls update_stats whatever the status
EndGameOnAlwaysUpdate(gm, st, file, player_id) ==
  IF player_id \in DOMAIN gm
  THEN LET u == UpdateStats(st, file, Str(player_id), gm[player_id].status)
       IN  [games |-> [q \in DOMAIN gm \ {player_id} |-> gm[q]],
            stats |-> u.stats, file |-> u.file]
  ELSE [games |-> gm, stats |-> st, file |-> file]

\* end_game that empties the session table instead of deleting one entry
EndGameOnClearAll(gm, st, file, player_id) ==
  IF player_id \in DOMAIN gm
  THEN LET u == IF gm[player_id].status # "playing"
                THEN UpdateStats(st, file, Str(player_id), gm[player_id].status)
                ELSE [stats |-> st, file |-> file]
       IN  [games |-> << >>, stats |-> u.stats, file |-> u.file]
  ELSE [games |-> gm, stats |-> st, file |-> file]

\* end_game, lines 223-227: <<games, stats, file>> afterwards
EndGameOn(gm, st, file, player_id) ==
  IF player_id \in DOMAIN gm
  THEN LET u == IF gm[player_id].status # "playing"
                THEN UpdateStats(st, file, Str(player_id), gm[player_id].status)
                ELSE [stats |-> st, file |-> file]
       IN  [games |-> [q \in DOMAIN gm \ {player_id} |-> gm[q]],
            stats |-> u.stats, file |-> u.file]
  ELSE [games |-> gm, stats |-> st, file |-> file]

(* ---- state -------------------------------------------------------------- *)
Terminal == {"player_win", "dealer_win", "tie"}

\* scored before _calculate_hand_value was called
NotScored == [hand |-> <<>>, value |-> -1, soft_aces |-> -1, blackjack |-> FALSE]

\* stand_from[p] while no stand(id, message) of p is running
NoStand == [game |-> << >>, deck |-> << >>]

Total(p) == IF Str(p) \in DOMAIN stats
            THEN stats[Str(p)].wins + stats[Str(p)].losses + stats[Str(p)].draws
            ELSE 0

\* BlackjackManager.__init__ and BlackjackStats.__init__ without a stats file
\* a handler task that is not running
Idle == [pc |-> "idle", user |-> 0, ticket |-> 0, cur |-> 0, size |-> 0, invalid |-> {}]

\* TicketManager.__init__ without a tickets.json, in a guild that has the
\* channel that will be named as transcript channel
TicketInit ==
  /\ tickets = << >>
  /\ tickets_file = "absent"
  /\ last_ticket_number = 0
  /\ transcript_channel_id = "None"
  /\ channels = {}
  /\ log_channel = TRUE
  /\ transcripts = [n \in 1..MaxTickets |-> 0]
  /\ closes = [n \in 1..MaxTickets |-> 0]
  /\ handler = [h \in Handlers |-> Idle]

Init ==
  /\ TicketInit
  /\ games = << >>
  /\ deck = << >>
  /\ stats = << >>
  /\ stats_file = "absent"
  /\ pc = [p \in Players |-> "idle"]
  /\ player_value = [p \in Players |-> 0]
  /\ started = [p \in Players |-> 0]
  /\ terminated = [p \in Players |-> 0]
  /\ ended = [p \in Players |-> 0]
  /\ last = [op |-> "init", player |-> 0, was |-> "none", ret |-> "None"]
  /\ hand_arg = <<>>
  /\ scored = NotScored
  /\ stand_from = [p \in Players |-> NoStand]

\* the status of p's session, "none" without one
StatusOf(p) == IF p \in DOMAIN games THEN games[p].status ELSE "none"

\* history: the call of this step, the status of the caller's session before
\* it, and what the call returned
Call(op, p, ret) == [op |-> op, player |-> p, was |-> StatusOf(p), ret |-> ret]

\* history: the sessions started so far, all players together
RECURSIVE SumOver(_, _)
SumOver(f, S) ==
  IF S = {} THEN 0
  ELSE LET x == CHOOSE y \in S : TRUE IN f[x] + SumOver(f, S \ {x})

AllStarted == SumOver(started, Players)

\* history: p's session reached a terminal status in this step
NoteTerminal(p, before, after) ==
  terminated' = IF before = "playing" /\ after \in Terminal
                THEN [terminated EXCEPT ![p] = @ + 1]
                ELSE terminated

(* ---- Spec: the methods of BlackjackManager ------------------------------ *)
\* start_game without the test of line 77
StartGameOverwrite(p) ==
  /\ AllStarted < MaxGames
  /\ \E o \in Deal(deck) :
       /\ started' = [started EXCEPT ![p] = @ + 1]
       /\ games' = (p :> o.game) @@ games
       /\ deck' = o.deck
       /\ NoteTerminal(p, "playing", o.game.status)
       /\ last' = Call("start_game", p, "game")
  /\ UNCHANGED <<ticket_vars, stats, stats_file, pc, player_value, ended, hand_arg, scored, stand_from>>

\* BlackjackManager.start_game
StartGame(p) ==
  /\ IF p \in DOMAIN games
     THEN /\ last' = Call("start_game", p, "None")
          /\ UNCHANGED <<games, deck, started, terminated>>
     ELSE /\ AllStarted < MaxGames
          /\ \E o \in Deal(deck) :
                 /\ started' = [started EXCEPT ![p] = @ + 1]
                 /\ games' = (p :> o.game) @@ games
                 /\ deck' = o.deck
                 /\ NoteTerminal(p, "playing", o.game.status)
                 /\ last' = Call("start_game", p, "game")
  /\ UNCHANGED <<ticket_vars, stats, stats_file, pc, player_value, ended, hand_arg, scored, stand_from>>

\* hit without the status test of line 119
HitAnyStatus(p) ==
  /\ IF p \notin DOMAIN games
     THEN /\ last' = Call("hit", p, "None")
          /\ UNCHANGED <<games, deck, terminated>>
     ELSE \E o \in HitOn(games[p], deck) :
            /\ games' = [games EXCEPT ![p] = o.game]
            /\ deck' = o.deck
            /\ NoteTerminal(p, games[p].status, o.game.status)
            /\ last' = Call("hit", p, o.ret)
  /\ UNCHANGED <<ticket_vars, stats, stats_file, pc, player_value, started, ended, hand_arg, scored, stand_from>>

\* BlackjackManager.hit
Hit(p) ==
  /\ IF p \notin DOMAIN games \/ games[p].status # "playing"
     THEN /\ last' = Call("hit", p, "None")
          /\ UNCHANGED <<games, deck, terminated>>
     ELSE \E o \in HitOn(games[p], deck) :
            /\ games' = [games EXCEPT ![p] = o.game]
            /\ deck' = o.deck
            /\ NoteTerminal(p, "playing", o.game.status)
            /\ last' = Call("hit", p, o.ret)
  /\ UNCHANGED <<ticket_vars, stats, stats_file, pc, player_value, started, ended, hand_arg, scored, stand_from>>

\* BlackjackManager.stand(player_id), message = None
Stand(p) ==
  /\ IF p \notin DOMAIN games \/ games[p].status # "playing"
     THEN /\ last' = Call("stand", p, "None")
          /\ UNCHANGED <<games, deck, terminated>>
     ELSE \E o \in StandOn(games[p], deck) :
            /\ games' = [games EXCEPT ![p] = o.game]
            /\ deck' = o.deck
            /\ NoteTerminal(p, "playing", o.game.status)
            /\ last' = Call("stand", p, "game")
  /\ UNCHANGED <<ticket_vars, stats, stats_file, pc, player_value, started, ended, hand_arg, scored, stand_from>>

\* BlackjackManager.end_game
EndGame(p) ==
  /\ LET e == EndGameOn(games, stats, stats_file, p)
     IN  /\ games' = e.games
         /\ stats' = e.stats
         /\ stats_file' = e.file
  /\ ended' = IF p \in DOMAIN games THEN [ended EXCEPT ![p] = @ + 1] ELSE ended
  /\ last' = Call("end_game", p, "None")
  /\ UNCHANGED <<ticket_vars, deck, pc, player_value, started, terminated, hand_arg, scored, stand_from>>

\* the bjstats command: format_stats_embed calls get_player_stats
BjStats(p) ==
  /\ LET g == GetPlayerStats(stats, stats_file, Str(p))
     IN  /\ stats' = g.stats
         /\ stats_file' = g.file
  /\ last' = Call("get_player_stats", p, "record")
  /\ UNCHANGED <<ticket_vars, games, deck, pc, player_value, started, terminated, ended, hand_arg, scored, stand_from>>

Next ==
  \E p \in Players :
    \/ StartGame(p)
    \/ Hit(p)
    \/ Stand(p)
    \/ EndGame(p)
    \/ BjStats(p)

Spec == Init /\ [][Next]_vars

(* ---- SpecCmd: the `blackjack` command of command_handler.py ------------- *)
\* The local game_state of the coroutine is the dict stored in self.games
\* (start_game, hit and stand return that object), so its status is read
\* from games[p].  pc[p] is "idle" when no coroutine of p is past start_game,
\* "loop" at the while test and in wait_for, "stand" while stand(id, message)
\* is suspended in message.edit / asyncio.sleep.

\* lines 222-236: the command is invoked; the awaits that follow start_game
\* touch no state of the engine
Blackjack(p) ==
  /\ IF p \in DOMAIN games
     THEN /\ last' = Call("start_game", p, "None")
          /\ UNCHANGED <<games, deck, pc, started, terminated>>
     ELSE /\ AllStarted < MaxGames
          /\ \E o \in Deal(deck) :
                 /\ started' = [started EXCEPT ![p] = @ + 1]
                 /\ games' = (p :> o.game) @@ games
                 /\ deck' = o.deck
                 /\ pc' = [pc EXCEPT ![p] = "loop"]
                 /\ NoteTerminal(p, "playing", o.game.status)
                 /\ last' = Call("start_game", p, "game")
  /\ UNCHANGED <<ticket_vars, stats, stats_file, player_value, ended, hand_arg, scored, stand_from>>

\* a hit reaction served by a listener of its own, whatever the command does
ReactHitAnytime(p) ==
  /\ p \in DOMAIN games
  /\ games[p].status = "playing"
  /\ \E o \in HitOn(games[p], deck) :
       /\ games' = [games EXCEPT ![p] = o.game]
       /\ deck' = o.deck
       /\ NoteTerminal(p, "playing", o.game.status)
       /\ last' = Call("hit", p, o.ret)
  /\ UNCHANGED <<ticket_vars, stats, stats_file, pc, player_value, started, ended, hand_arg, scored, stand_from>>

\* lines 243-247, 251-254: the hit reaction
ReactHit(p) ==
  /\ pc[p] = "loop"
  /\ games[p].status = "playing"
  /\ \E o \in HitOn(games[p], deck) :
       /\ games' = [games EXCEPT ![p] = o.game]
       /\ deck' = o.deck
       /\ NoteTerminal(p, "playing", o.game.status)
       /\ last' = Call("hit", p, o.ret)
  /\ UNCHANGED <<ticket_vars, stats, stats_file, pc, player_value, started, ended, hand_arg, scored, stand_from>>

\* lines 248-249 and stand, lines 138-152: the stand reaction; stand passes
\* its guards, computes player_value and suspends to reveal the hidden card
ReactStand(p) ==
  /\ pc[p] = "loop"
  /\ games[p].status = "playing"
  /\ player_value' = [player_value EXCEPT ![p] = CalculateHandValue(games[p].player_hand)]
  /\ pc' = [pc EXCEPT ![p] = "stand"]
  /\ last' = Call("stand", p, "suspended")
  /\ stand_from' = [stand_from EXCEPT ![p] = [game |-> games[p], deck |-> deck]]
  /\ UNCHANGED <<ticket_vars, games, deck, stats, stats_file, started, terminated, ended, hand_arg, scored>>

\* lines 238-243: a reaction of p that arrives while stand(id, message) is
\* suspended; the command is not in wait_for, so nothing receives it
ReactIgnored(p) ==
  /\ pc[p] = "stand"
  /\ last' = Call("reaction", p, "ignored")
  /\ UNCHANGED <<ticket_vars, games, deck, stats, stats_file, pc, player_value, started, terminated, ended,
                 hand_arg, scored, stand_from>>

\* stand, lines 155-187 with a message: stand resumes and runs to its next
\* suspension (after one dealer card) or to its return
StandResume(p) ==
  /\ pc[p] = "stand"
  /\ LET g  == games[p]
         dv == CalculateHandValueAces(g.dealer_hand)
         finish(d) ==
           /\ games' = [games EXCEPT ![p].status =
                          Resolve(CalculateHandValue(g.dealer_hand), player_value[p])]
           /\ deck' = d
           /\ pc' = [pc EXCEPT ![p] = "loop"]
           /\ player_value' = [player_value EXCEPT ![p] = 0]
           /\ stand_from' = [stand_from EXCEPT ![p] = NoStand]
           /\ NoteTerminal(p, "playing", games'[p].status)
           /\ last' = Call("stand_resume", p, "game")
     IN  IF DealerStands(dv[1], dv[2])
         THEN finish(deck)
         ELSE \E o \in DrawCard(deck) :
                IF o.card = NoCard
                THEN finish(o.deck)
                ELSE /\ games' = [games EXCEPT ![p].dealer_hand = Append(@, o.card)]
                     /\ deck' = o.deck
                     /\ last' = Call("stand_resume", p, "suspended")
                     /\ UNCHANGED <<pc, terminated, player_value, stand_from>>
  /\ UNCHANGED <<ticket_vars, stats, stats_file, started, ended, hand_arg, scored>>

\* lines 243, 256-262: wait_for times out; stand(id) is called without await,
\* which only builds a coroutine object that never runs; that object is
\* truthy, so format_game_embed(game_state, ...) subscripts it and raises
\* TypeError, which ends the command before break and end_game.  (Before
\* Python 3.11 asyncio.TimeoutError is not the builtin TimeoutError, the
\* except clause does not match and the command ends at wait_for: the state
\* is left the same way.)
Timeout(p) ==
  /\ pc[p] = "loop"
  /\ games[p].status = "playing"
  /\ pc' = [pc EXCEPT ![p] = "idle"]
  /\ last' = Call("timeout", p, "TypeError")
  /\ UNCHANGED <<ticket_vars, games, deck, stats, stats_file, player_value, started, terminated, ended, hand_arg, scored, stand_from>>

\* lines 241, 264-265: the while test fails and end_game cleans up
Finish(p) ==
  /\ pc[p] = "loop"
  /\ games[p].status # "playing"
  /\ LET e == EndGameOn(games, stats, stats_file, p)
     IN  /\ games' = e.games
         /\ stats' = e.stats
         /\ stats_file' = e.file
  /\ pc' = [pc EXCEPT ![p] = "idle"]
  /\ ended' = IF p \in DOMAIN games THEN [ended EXCEPT ![p] = @ + 1] ELSE ended
  /\ last' = Call("end_game", p, "None")
  /\ UNCHANGED <<ticket_vars, deck, player_value, started, terminated, hand_arg, scored, stand_from>>

NextCmd ==
  \E p \in Players :
    \/ Blackjack(p)
    \/ ReactHit(p)
    \/ ReactStand(p)
    \/ ReactIgnored(p)
    \/ StandResume(p)
    \/ Timeout(p)
    \/ Finish(p)

SpecCmd == Init /\ [][NextCmd]_vars

(* ---- SpecScore: the scorer as a function of the list it is given -------- *)
\* longest list of cards handed to the scorer
MaxHandLen == 3

\* the variables of the engine, which the scorer neither reads nor writes
engine_vars == <<games, deck, stats, stats_file, pc, player_value, started, terminated,
                 ended, last, stand_from>>

\* _calculate_hand_value reads card.value and card.numeric_value only: one
\* card of each of the thirteen values
ScoreCards == { Card(suits[Len(suits)], values[i]) : i \in 1..Len(values) }

\* the lists of at most MaxHandLen cards, a value repeated at will
Hands == UNION { [1..n -> ScoreCards] : n \in 0..MaxHandLen }

\* a manager as constructed, about to score any such list
InitScore ==
  /\ TicketInit
  /\ games = << >>
  /\ deck = << >>
  /\ stats = << >>
  /\ stats_file = "absent"
  /\ pc = [p \in Players |-> "idle"]
  /\ player_value = [p \in Players |-> 0]
  /\ started = [p \in Players |-> 0]
  /\ terminated = [p \in Players |-> 0]
  /\ ended = [p \in Players |-> 0]
  /\ last = [op |-> "init", player |-> 0, was |-> "none", ret |-> "None"]
  /\ stand_from = [p \in Players |-> NoStand]
  /\ hand_arg \in Hands
  /\ scored = NotScored

\* _calculate_hand_value(hand, count_aces=True) and _is_blackjack(hand)
ScoreHand ==
  /\ scored = NotScored
  /\ scored' = [hand |-> hand_arg,
                value |-> CalculateHandValueAces(hand_arg)[1],
                soft_aces |-> CalculateHandValueAces(hand_arg)[2],
                blackjack |-> IsBlackjack(hand_arg)]
  /\ UNCHANGED <<ticket_vars, hand_arg, engine_vars>>

\* the same cards in another order: cards i and i + 1 change places
Reorder(i) ==
  /\ i \in 1..(Len(hand_arg) - 1)
  /\ hand_arg[i] # hand_arg[i + 1]
  /\ hand_arg' = [hand_arg EXCEPT ![i] = hand_arg[i + 1], ![i + 1] = hand_arg[i]]
  /\ UNCHANGED <<ticket_vars, scored, engine_vars>>

NextScore ==
  \/ ScoreHand
  \/ \E i \in 1..MaxHandLen : Reorder(i)

SpecScore == InitScore /\ [][NextScore]_vars

(* ---- SpecShoe: the shoe under repeated _draw_card ---------------------- *)
\* one call of _draw_card, by whichever operation makes it; last records
\* whether the deck was empty at the call, the card that was returned, what
\* the step before was, and the cards returned since the deck was last filled
Draw ==
  /\ \E o \in DrawCard(deck) :
       /\ deck' = o.deck
       /\ last' = [op |-> "_draw_card", player |-> 0,
                   was |-> IF deck = <<>> THEN "empty" ELSE "cards",
                   ret |-> IF o.card = NoCard THEN "None" ELSE "card",
                   card |-> o.card, prev |-> last.op,
                   out |-> IF deck = <<>> \/ last.op # "_draw_card"
                           THEN <<o.card>>
                           ELSE Append(last.out, o.card)]
  /\ UNCHANGED <<ticket_vars, games, stats, stats_file, pc, player_value, started, terminated, ended,
                 hand_arg, scored, stand_from>>

NextShoe == Draw

SpecShoe == Init /\ [][NextShoe]_vars

(* ---- SpecIO: the engine when blackjack_stats.json cannot be written ------ *)
\* at most this many failed writes per player leave an increment in memory
MaxFailedSaves == 1

\* what a failed _save_stats leaves on disk: the old content when open(...,
\* 'w') fails, a cut-off file when json.dump fails
FailedSave(old) ==
  \/ stats_file' = old
  \/ stats_file' = "truncated"

\* end_game, lines 223-227, on a finished session while the file cannot be
\* written: nothing catches the exception of _save_stats, so it leaves
\* update_stats and end_game before the del of line 227.  Without a record
\* the save inside get_player_stats (line 33) is the first to be tried: it
\* fails, or it succeeds and the save of line 47 fails.
EndGameSaveFails(p) ==
  /\ p \in DOMAIN games
  /\ games[p].status # "playing"
  /\ LET key == Str(p)
         st1 == IF key \in DOMAIN stats THEN stats ELSE (key :> ZeroRecord) @@ stats
         st2 == [st1 EXCEPT ![key] = Increment(@, games[p].status)]
     IN  \/ /\ key \notin DOMAIN stats
            /\ stats' = st1
            /\ FailedSave(stats_file)
         \/ /\ Total(p) < terminated[p] - 1 + MaxFailedSaves
            /\ stats' = st2
            /\ FailedSave(IF key \in DOMAIN stats THEN stats_file ELSE st1)
  /\ last' = Call("end_game", p, "OSError")
  /\ UNCHANGED <<ticket_vars, games, deck, pc, player_value, started, terminated, ended,
                 hand_arg, scored, stand_from>>

NextIO ==
  \E p \in Players :
    \/ StartGame(p)
    \/ Hit(p)
    \/ Stand(p)
    \/ EndGame(p)
    \/ EndGameSaveFails(p)

SpecIO == Init /\ [][NextIO]_vars

(* ---- SpecDealer: the dealer loop of stand over the shoes that feed it ---- *)
\* cards laid out by the shuffle at the start of a stand: the dealer's two
\* cards and the next cards of the shoe
MaxTop == 6

\* the player whose stand is followed, and the hand the player stands on
Stander == CHOOSE p \in Players : \A q \in Players : p <= q
StanderHand == <<Card("Hearts", "10"), Card("Hearts", "8")>>

\* the cards that keep the dealer below 17 longest
LowCards ==
  { Card(suits[i], "A") : i \in 1..Len(suits) }
    \cup { Card("Hearts", "2"), Card("Diamonds", "2"), Card("Hearts", "3"),
           Card("Hearts", "6") }

\* the ways random.shuffle can have laid MaxTop of these cards in a row
Tops == { t \in [1..MaxTop -> LowCards] : \A i, j \in 1..MaxTop : i # j => t[i] # t[j] }

\* the rest of the 52 cards, below them in the shoe
Below(t) ==
  SelectSeq(FullDeck, LAMBDA c : c \notin { t[i] : i \in 1..MaxTop }
                                   /\ c \notin { StanderHand[i] : i \in 1..2 })

\* the shoe once t[1], t[2] went to the dealer: t[3] is the next card
ShoeUnder(t) == Below(t) \o [i \in 1..(MaxTop - 2) |-> t[MaxTop + 1 - i]]

\* stand(id, message) has passed its guards (lines 138-152) on a session
\* dealt from such a shoe and is about to enter the dealer loop
InitDealer ==
  \E t \in Tops :
    LET g == [player_hand |-> StanderHand,
              dealer_hand |-> <<t[1], t[2]>>,
              status |-> "playing"]
    IN  /\ TicketInit
        /\ games = (Stander :> g)
        /\ deck = ShoeUnder(t)
        /\ stats = << >>
        /\ stats_file = "absent"
        /\ pc = [p \in Players |-> IF p = Stander THEN "stand" ELSE "idle"]
        /\ player_value = [p \in Players |->
                             IF p = Stander THEN CalculateHandValue(StanderHand) ELSE 0]
        /\ started = [p \in Players |-> IF p = Stander THEN 1 ELSE 0]
        /\ terminated = [p \in Players |-> 0]
        /\ ended = [p \in Players |-> 0]
        /\ last = [op |-> "stand", player |-> Stander, was |-> "playing", ret |-> "suspended"]
        /\ hand_arg = <<>>
        /\ scored = NotScored
        /\ stand_from = [p \in Players |->
                           IF p = Stander THEN [game |-> g, deck |-> ShoeUnder(t)] ELSE NoStand]

\* the iterations of the loop of lines 155-173, one per step
NextDealer == \E p \in Players : StandResume(p)

SpecDealer == InitDealer /\ [][NextDealer]_vars

(* ---- start_game on every deal -------------------------------------------- *)
\* the four cards that start_game draws (lines 83-84), by rank: one card of
\* each suit, so that every combination of ranks is a set of four cards
Deals == [1..Len(suits) -> { values[i] : i \in 1..Len(values) }]
DealCards(r) == [i \in 1..Len(suits) |-> Card(suits[i], r[i])]

\* a shuffled deck that has these four cards on top, r[1] to be drawn first
ShoeWith(r) ==
  SelectSeq(FullDeck, LAMBDA c : c \notin { DealCards(r)[i] : i \in 1..Len(suits) })
    \o [i \in 1..Len(suits) |-> DealCards(r)[Len(suits) + 1 - i]]

\* the engine before any game, with such a deck
InitStart ==
  \E r \in Deals :
    /\ TicketInit
    /\ games = << >>
    /\ deck = ShoeWith(r)
    /\ stats = << >>
    /\ stats_file = "absent"
    /\ pc = [p \in Players |-> "idle"]
    /\ player_value = [p \in Players |-> 0]
    /\ started = [p \in Players |-> 0]
    /\ terminated = [p \in Players |-> 0]
    /\ ended = [p \in Players |-> 0]
    /\ last = [op |-> "init", player |-> 0, was |-> "none", ret |-> "None"]
    /\ hand_arg = <<>>
    /\ scored = NotScored
    /\ stand_from = [p \in Players |-> NoStand]

\* start_game for one player
NextStart == StartGame(Stander)

SpecStart == InitStart /\ [][NextStart]_vars


(* ---- SpecTicket: the ticket workflow -------------------------------------- *)
\* the variables of the blackjack engine, which the ticket workflow leaves alone
blackjack_vars == <<games, deck, stats, stats_file, pc, player_value, started, terminated,
                    ended, hand_arg, scored, stand_from>>

\* the call made by a step of handler h, for user u and ticket n, and what it
\* returned or raised ("suspended": it awaits)
TicketCall(op, h, u, n, ret) ==
  [op |-> op, player |-> u, was |-> handler[h].pc, ret |-> ret, ticket |-> n, handler |-> h]

Least(S) == CHOOSE n \in S : \A m \in S : n <= m

\* the dict without the keys in gone
Without(tk, gone) == [n \in DOMAIN tk \ gone |-> tk[n]]

\* the result of a run of handle_ticket_reaction up to its next await or its end
Step(tk, file, number, hr, ret) ==
  [tickets |-> tk, file |-> file, number |-> number, handler |-> hr, ret |-> ret]

\* handle_ticket_reaction, lines 195-207 and create_ticket_channel, lines
\* 360-383: the second loop from the ticket after k on; it awaits
\* fetch_channel at the user's next open ticket, and after the loop the
\* ticket number is taken and create_text_channel is awaited
CheckFrom(tk, file, number, hr, k) ==
  LET mine == { n \in DOMAIN tk : n > k /\ tk[n].user_id = hr.user /\ tk[n].status = "open" }
  IN  IF mine # {}
      THEN Step(tk, file, number, [hr EXCEPT !.pc = "check", !.cur = Least(mine)], "suspended")
      ELSE Step(tk, file, number + 1,
                [hr EXCEPT !.pc = "create", !.ticket = number + 1, !.cur = 0, !.size = 0],
                "suspended")

\* lines 189-193: the invalid tickets are deleted one by one, with a KeyError
\* at the first that another handler has deleted already; the dict is saved
\* if there was any, and the second loop begins
RemoveInvalid(tk, file, number, hr) ==
  LET missing == hr.invalid \ DOMAIN tk
  IN  IF missing # {}
      THEN Step(Without(tk, { n \in hr.invalid : n < Least(missing) }), file, number,
                Idle, "KeyError")
      ELSE LET tk1 == Without(tk, hr.invalid)
               f1  == IF hr.invalid = {} THEN file ELSE tk1
           IN  CheckFrom(tk1, f1, number,
                         [hr EXCEPT !.invalid = {}, !.size = Cardinality(DOMAIN tk1)], 0)

\* lines 180-187: the first loop from the ticket after k on; it awaits
\* fetch_channel at the next open ticket
CleanupFrom(tk, file, number, hr, k) ==
  LET open == { n \in DOMAIN tk : n > k /\ tk[n].status = "open" }
  IN  IF open # {}
      THEN Step(tk, file, number, [hr EXCEPT !.pc = "cleanup", !.cur = Least(open)], "suspended")
      ELSE RemoveInvalid(tk, file, number, hr)

\* a for loop over self.tickets.items() that resumes after an await: the
\* iterator raises RuntimeError when the dict has changed size meanwhile
Resumed(tk, file, number, hr, continue) ==
  IF Cardinality(DOMAIN tk) # hr.size
  THEN Step(tk, file, number, Idle, "RuntimeError")
  ELSE continue

\* the reaction handlers that have not taken their ticket number yet
Arriving == { h \in Handlers : handler[h].pc \in {"users", "cleanup", "check"} }

\* a step of handle_ticket_reaction by handler h with the result r
ReactionStep(h, r) ==
  /\ tickets' = r.tickets
  /\ tickets_file' = r.file
  /\ last_ticket_number' = r.number
  /\ handler' = [handler EXCEPT ![h] = r.handler]
  /\ last' = TicketCall("handle_ticket_reaction", h, handler[h].user, handler[h].cur, r.ret)
  /\ UNCHANGED <<transcript_channel_id, channels, log_channel, transcripts, closes, blackjack_vars>>

\* on_raw_reaction_add and handle_ticket_reaction, lines 171-177: a user adds
\* the ticket reaction; the handler awaits reaction.users() and remove
ReactionAdd(h, u) ==
  /\ handler[h].pc = "idle"
  /\ last_ticket_number + Cardinality(Arriving) < MaxTickets
  /\ handler' = [handler EXCEPT ![h] = [Idle EXCEPT !.pc = "users", !.user = u]]
  /\ last' = [TicketCall("handle_ticket_reaction", h, u, 0, "suspended") EXCEPT !.was = "idle"]
  /\ UNCHANGED <<tickets, tickets_file, last_ticket_number, transcript_channel_id, channels,
                 log_channel, transcripts, closes, blackjack_vars>>

\* lines 175-181: the reactions are removed and the first loop begins
ReactionUsers(h) ==
  /\ handler[h].pc = "users"
  /\ ReactionStep(h, CleanupFrom(tickets, tickets_file, last_ticket_number,
                                 [handler[h] EXCEPT !.size = Cardinality(DOMAIN tickets)], 0))

\* lines 185-187: fetch_channel of the first loop returns or raises NotFound
ReactionFetched(h) ==
  /\ handler[h].pc = "cleanup"
  /\ LET hr  == handler[h]
         hr1 == IF hr.cur \in channels THEN hr
                ELSE [hr EXCEPT !.invalid = @ \cup {hr.cur}]
     IN  ReactionStep(h, Resumed(tickets, tickets_file, last_ticket_number, hr1,
                                 CleanupFrom(tickets, tickets_file, last_ticket_number,
                                             hr1, hr.cur)))

\* lines 200-204: fetch_channel of the second loop returns, the user is told
\* and the handler returns; or it raises NotFound and the loop goes on
ReactionChecked(h) ==
  /\ handler[h].pc = "check"
  /\ LET hr == handler[h]
     IN  IF hr.cur \in channels
         THEN ReactionStep(h, Step(tickets, tickets_file, last_ticket_number, Idle,
                                   "already_open"))
         ELSE ReactionStep(h, Resumed(tickets, tickets_file, last_ticket_number, hr,
                                      CheckFrom(tickets, tickets_file, last_ticket_number,
                                                hr, hr.cur)))

\* create_ticket_channel, lines 383-400 and lines 207-232: the channel exists,
\* the ticket is stored and saved; the messages that follow change nothing
ReactionCreated(h) ==
  /\ handler[h].pc = "create"
  /\ LET n == handler[h].ticket
     IN  /\ channels' = channels \cup {n}
         /\ tickets' = (n :> [channel_id |-> n, user_id |-> handler[h].user, status |-> "open"])
                         @@ tickets
         /\ tickets_file' = tickets'
         /\ last' = TicketCall("handle_ticket_reaction", h, handler[h].user, n, "created")
  /\ handler' = [handler EXCEPT ![h] = Idle]
  /\ UNCHANGED <<last_ticket_number, transcript_channel_id, log_channel, transcripts, closes,
                 blackjack_vars>>

\* a step of handle_button_interaction and close_ticket by handler h that
\* leaves it at the position at (idle: it returned ret)
CloseStep(h, at, ret) ==
  /\ handler' = [handler EXCEPT ![h] = IF at = "idle" THEN Idle ELSE [@ EXCEPT !.pc = at]]
  /\ last' = TicketCall("close_ticket", h, 0, handler[h].ticket, ret)

\* handle_button_interaction, lines 234-309: the close button of the channel
\* of ticket n is pressed by a member who may close tickets
ButtonClick(h, n) ==
  /\ handler[h].pc = "idle"
  /\ n \in channels
  /\ IF transcript_channel_id = "None"
     THEN /\ last' = TicketCall("handle_button_interaction", h, 0, n, "not set up")
          /\ UNCHANGED handler
     ELSE IF ~log_channel
     THEN /\ last' = TicketCall("handle_button_interaction", h, 0, n, "not accessible")
          /\ UNCHANGED handler
     ELSE /\ last' = TicketCall("handle_button_interaction", h, 0, n, "suspended")
          /\ handler' = [handler EXCEPT ![h] = [Idle EXCEPT !.pc = "defer", !.ticket = n]]
  /\ UNCHANGED <<tickets, tickets_file, last_ticket_number, transcript_channel_id, channels,
                 log_channel, transcripts, closes, blackjack_vars>>

\* close_ticket, lines 125-134 and save_transcript, lines 39-64: the guards,
\* then the await of channel.history
CloseStart(h) ==
  /\ handler[h].pc = "defer"
  /\ LET n == handler[h].ticket
     IN  IF n \notin DOMAIN tickets \/ tickets[n].status # "open"
         THEN CloseStep(h, "idle", "False")
         ELSE IF transcript_channel_id = "None" \/ ~log_channel
         THEN CloseStep(h, "idle", "False")
         ELSE CloseStep(h, "history", "suspended")
  /\ UNCHANGED <<tickets, tickets_file, last_ticket_number, transcript_channel_id, channels,
                 log_channel, transcripts, closes, blackjack_vars>>

\* save_transcript, lines 64-121: the history is read (NotFound if the
\* channel is gone, caught at line 161), then the await of transcript_channel.send
CloseHistory(h) ==
  /\ handler[h].pc = "history"
  /\ IF handler[h].ticket \in channels
     THEN CloseStep(h, "send", "suspended")
     ELSE CloseStep(h, "idle", "False")
  /\ UNCHANGED <<tickets, tickets_file, last_ticket_number, transcript_channel_id, channels,
                 log_channel, transcripts, closes, blackjack_vars>>

\* a close_ticket that sets the status before the transcript is sent
CloseSentStatusFirst(h) ==
  /\ handler[h].pc = "send"
  /\ LET n == handler[h].ticket
     IN  IF n \notin DOMAIN tickets
         THEN /\ CloseStep(h, "idle", "False")
              /\ UNCHANGED <<tickets, tickets_file, transcripts, closes>>
         ELSE /\ tickets' = [tickets EXCEPT ![n].status = "closed"]
              /\ tickets_file' = tickets'
              /\ closes' = [closes EXCEPT ![n] = @ + 1]
              /\ IF log_channel
                 THEN /\ transcripts' = [transcripts EXCEPT ![n] = @ + 1]
                      /\ CloseStep(h, "notify", "suspended")
                 ELSE /\ CloseStep(h, "idle", "False")
                      /\ UNCHANGED transcripts
  /\ UNCHANGED <<last_ticket_number, transcript_channel_id, channels, log_channel, blackjack_vars>>

\* save_transcript, line 121 and close_ticket, lines 135-153: the send fails
\* when the transcript channel is gone (caught at line 161); else the
\* transcript is posted, the status is updated (KeyError if the ticket was
\* removed, caught at line 161) and saved, then the await of channel.send
CloseSent(h) ==
  /\ handler[h].pc = "send"
  /\ LET n == handler[h].ticket
     IN  IF ~log_channel
         THEN /\ CloseStep(h, "idle", "False")
              /\ UNCHANGED <<tickets, tickets_file, transcripts, closes>>
         ELSE /\ transcripts' = [transcripts EXCEPT ![n] = @ + 1]
              /\ IF n \notin DOMAIN tickets
                 THEN /\ CloseStep(h, "idle", "False")
                      /\ UNCHANGED <<tickets, tickets_file, closes>>
                 ELSE /\ tickets' = [tickets EXCEPT ![n].status = "closed"]
                      /\ tickets_file' = tickets'
                      /\ closes' = [closes EXCEPT ![n] = @ + 1]
                      /\ CloseStep(h, "notify", "suspended")
  /\ UNCHANGED <<last_ticket_number, transcript_channel_id, channels, log_channel, blackjack_vars>>

\* close_ticket, lines 153-156: the closing message is posted (NotFound if
\* the channel is gone), then the await of channel.delete
CloseNotified(h) ==
  /\ handler[h].pc = "notify"
  /\ IF handler[h].ticket \in channels
     THEN CloseStep(h, "delete", "suspended")
     ELSE CloseStep(h, "idle", "False")
  /\ UNCHANGED <<tickets, tickets_file, last_ticket_number, transcript_channel_id, channels,
                 log_channel, transcripts, closes, blackjack_vars>>

\* close_ticket, lines 156-157: the channel is deleted (NotFound if it is gone)
CloseDeleted(h) ==
  /\ handler[h].pc = "delete"
  /\ IF handler[h].ticket \in channels
     THEN /\ channels' = channels \ {handler[h].ticket}
          /\ CloseStep(h, "idle", "True")
     ELSE /\ CloseStep(h, "idle", "False")
          /\ UNCHANGED channels
  /\ UNCHANGED <<tickets, tickets_file, last_ticket_number, transcript_channel_id,
                 log_channel, transcripts, closes, blackjack_vars>>

\* set_transcript_channel, called by the setticketlog command
SetTranscriptChannel ==
  /\ transcript_channel_id = "None"
  /\ transcript_channel_id' = "log"
  /\ last' = [op |-> "set_transcript_channel", player |-> 0, was |-> "None", ret |-> "None"]
  /\ UNCHANGED <<tickets, tickets_file, last_ticket_number, channels, log_channel, transcripts,
                 closes, handler, blackjack_vars>>

\* the guild: a moderator deletes the channel of ticket n by hand
ChannelRemoved(n) ==
  /\ n \in channels
  /\ channels' = channels \ {n}
  /\ last' = [op |-> "channel_removed", player |-> 0, was |-> "None", ret |-> "None"]
  /\ UNCHANGED <<tickets, tickets_file, last_ticket_number, transcript_channel_id, log_channel,
                 transcripts, closes, handler, blackjack_vars>>

\* the guild: the transcript channel is deleted or hidden from the bot
LogChannelRemoved ==
  /\ log_channel
  /\ transcript_channel_id # "None"
  /\ log_channel' = FALSE
  /\ last' = [op |-> "log_channel_removed", player |-> 0, was |-> "None", ret |-> "None"]
  /\ UNCHANGED <<tickets, tickets_file, last_ticket_number, transcript_channel_id, channels,
                 transcripts, closes, handler, blackjack_vars>>

NextTicket ==
  \/ \E h \in Handlers : \E u \in Players : ReactionAdd(h, u)
  \/ \E h \in Handlers : ReactionUsers(h)
  \/ \E h \in Handlers : ReactionFetched(h)
  \/ \E h \in Handlers : ReactionChecked(h)
  \/ \E h \in Handlers : ReactionCreated(h)
  \/ \E h \in Handlers : \E n \in 1..MaxTickets : ButtonClick(h, n)
  \/ \E h \in Handlers : CloseStart(h)
  \/ \E h \in Handlers : CloseHistory(h)
  \/ \E h \in Handlers : CloseSent(h)
  \/ \E h \in Handlers : CloseNotified(h)
  \/ \E h \in Handlers : CloseDeleted(h)
  \/ SetTranscriptChannel
  \/ \E n \in 1..MaxTickets : ChannelRemoved(n)
  \/ LogChannelRemoved

SpecTicket == Init /\ [][NextTicket]_vars

(* ---- claims -------------------------------------------------------------- *)
\* a natural by its cards: one Ace and one ten-valued card
Natural(hand) ==
  /\ Len(hand) = 2
  /\ \E i, j \in 1..2 : /\ i # j
                        /\ hand[i].value = "A"
                        /\ hand[j].value \in {"10", "J", "Q", "K"}

\* C1: a player has at most one session: the sessions started for a player
\* exceed those removed by one while the store holds a session for the player
\* and by none otherwise; start_game for a player who already has a session
\* returns None and leaves the sessions (hands and status), the shoe and the
\* stats ledger as they were.
C1_StartWhileActive ==
  /\ [](\A p \in Players :
          started[p] - ended[p] = IF p \in DOMAIN games THEN 1 ELSE 0)
  /\ [][\A p \in Players :
       (last'.op = "start_game" /\ last'.player = p /\ p \in DOMAIN games)
       => /\ last'.ret = "None"
          /\ games' = games
          /\ deck' = deck
          /\ stats' = stats
          /\ stats_file' = stats_file]_vars

C1_Witness ==
  /\ last.op = "start_game"
  /\ last.was \in {"playing", "player_win", "dealer_win", "tie"}
  /\ last.ret = "None"
  /\ last.player \in DOMAIN games

\* C2: the status that start_game sets follows the table of naturals (both ->
\* tie, player only -> player_win, dealer only -> dealer_win, neither ->
\* playing), and start_game draws the four dealt cards and no more.
C2_StartTable ==
  [][\A p \in Players :
       (last'.op = "start_game" /\ last'.player = p /\ last'.ret = "game")
       => LET g  == games'[p]
              pn == Natural(g.player_hand)
              dn == Natural(g.dealer_hand)
          IN  /\ g.status = IF pn /\ dn THEN "tie"
                            ELSE IF pn THEN "player_win"
                            ELSE IF dn THEN "dealer_win"
                            ELSE "playing"
              /\ Len(g.player_hand) = 2
              /\ Len(g.dealer_hand) = 2
              /\ Len(deck') = (Len(deck) + Len(FullDeck) - 4) % Len(FullDeck)]_vars

C2_Witness ==
  /\ last.op = "start_game"
  /\ last.ret = "game"
  /\ last.player \in DOMAIN games
  /\ games[last.player].status = "tie"
  /\ Natural(games[last.player].player_hand)
  /\ Natural(games[last.player].dealer_hand)

\* C3: hit on a playing session appends exactly the drawn card to the player
\* hand; above 21 the status is dealer_win, at exactly 21 stand has run and
\* the status is terminal, below 21 the session stays playing.
C3_Hit ==
  [][\A p \in Players :
       (last'.op = "hit" /\ last'.player = p /\ StatusOf(p) = "playing")
       => LET old == games[p]
              new == games'[p]
              n   == Len(old.player_hand)
              pv  == CalculateHandValue(new.player_hand)
          IN  /\ last'.ret = "game"
              /\ Len(new.player_hand) = n + 1
              /\ SubSeq(new.player_hand, 1, n) = old.player_hand
              /\ deck # <<>> => new.player_hand[n + 1] = deck[Len(deck)]
              /\ pv > 21 => new.status = "dealer_win"
              /\ pv = 21 => new.status \in Terminal
              /\ pv < 21 => new.status = "playing"]_vars

C3_Witness ==
  /\ last.op = "hit"
  /\ last.was = "playing"
  /\ last.player \in DOMAIN games
  /\ CalculateHandValue(games[last.player].player_hand) = 21
  /\ games[last.player].status \in Terminal

\* C4: hit and stand on a session whose status is terminal, or for a player
\* without a session, return None, draw no card and change no session.
C4_TerminalAbsorbing ==
  [][\A p \in Players :
       (last'.op \in {"hit", "stand"} /\ last'.player = p
          /\ StatusOf(p) \in Terminal \cup {"none"})
       => /\ last'.ret = "None"
          /\ games' = games
          /\ deck' = deck]_vars

C4_Witness ==
  /\ last.op \in {"hit", "stand"}
  /\ last.was \in Terminal
  /\ last.ret = "None"
  /\ last.player \in DOMAIN games
  /\ games[last.player].status = last.was

\* C5: during stand the dealer draws exactly while the dealer's value is
\* below 17: the value is at least 17 when stand returns, every card was
\* drawn on a value below 17, and a dealer already at 17 or more (a soft 17
\* included) gets no card, so the dealer hand and the shoe stay as they were.
C5_DealerPolicy ==
  [][\A p \in Players :
       (last'.op = "stand" /\ last'.player = p /\ StatusOf(p) = "playing")
       => LET old == games[p].dealer_hand
              new == games'[p].dealer_hand
          IN  /\ CalculateHandValue(new) >= 17
              /\ Len(new) >= Len(old)
              /\ SubSeq(new, 1, Len(old)) = old
              /\ \A k \in Len(old)..(Len(new) - 1) :
                   CalculateHandValue(SubSeq(new, 1, k)) < 17
              /\ CalculateHandValue(old) >= 17 => (new = old /\ deck' = deck)]_vars

\* the dealer stood on [6, A] without drawing
C5_Witness ==
  /\ last.op = "stand"
  /\ last.was = "playing"
  /\ last.player \in DOMAIN games
  /\ LET dh == games[last.player].dealer_hand
     IN  /\ Len(dh) = 2
         /\ {dh[1].value, dh[2].value} = {"6", "A"}
         /\ CalculateHandValueAces(dh) = <<17, 1>>

\* C6: stand sets the status from the final dealer value d and player value
\* p: d > 21 player_win, else d > p dealer_win, else d < p player_win, else
\* tie; the status is terminal afterwards.
C6_StandResolution ==
  [][\A p \in Players :
       (last'.op = "stand" /\ last'.player = p /\ StatusOf(p) = "playing")
       => LET d  == CalculateHandValue(games'[p].dealer_hand)
              pv == CalculateHandValue(games'[p].player_hand)
              st == games'[p].status
          IN  /\ games'[p].player_hand = games[p].player_hand
              /\ d > 21 => st = "player_win"
              /\ (d <= 21 /\ d > pv) => st = "dealer_win"
              /\ (d <= 21 /\ d < pv) => st = "player_win"
              /\ (d <= 21 /\ d = pv) => st = "tie"
              /\ st \in Terminal]_vars

C6_Witness ==
  /\ last.op = "stand"
  /\ last.was = "playing"
  /\ last.player \in DOMAIN games
  /\ games[last.player].status = "tie"
  /\ CalculateHandValue(games[last.player].dealer_hand)
       = CalculateHandValue(games[last.player].player_hand)

\* the counters of player p, zero when p has no record yet
RecordOf(st, p) == IF Str(p) \in DOMAIN st THEN st[Str(p)] ELSE ZeroRecord

\* C7: end_game on a session with a terminal status adds 1 to exactly the
\* counter of that status in the player's record, leaves the other two
\* counters and every other record unchanged, and removes the session.
C7_Finalize ==
  [][\A p \in Players :
       (last'.op = "end_game" /\ last'.player = p /\ StatusOf(p) \in Terminal)
       => LET b  == RecordOf(stats, p)
              a  == RecordOf(stats', p)
              st == StatusOf(p)
          IN  /\ a.wins   = b.wins   + (IF st = "player_win" THEN 1 ELSE 0)
              /\ a.losses = b.losses + (IF st = "dealer_win" THEN 1 ELSE 0)
              /\ a.draws  = b.draws  + (IF st = "tie" THEN 1 ELSE 0)
              /\ DOMAIN stats' = DOMAIN stats \cup {Str(p)}
              /\ \A k \in DOMAIN stats \ {Str(p)} : stats'[k] = stats[k]
              /\ p \notin DOMAIN games'
              /\ \A q \in DOMAIN games \ {p} :
                   q \in DOMAIN games' /\ games'[q] = games[q]]_vars

C7_Witness ==
  /\ last.op = "end_game"
  /\ last.was = "player_win"
  /\ last.player \notin DOMAIN games
  /\ RecordOf(stats, last.player).wins = 1
  /\ RecordOf(stats, last.player).losses = 0
  /\ RecordOf(stats, last.player).draws = 0

\* C8 as stated: end_game changes neither the session store nor the stats
\* ledger when the player has no session or the session is still playing.
C8_Original ==
  [][\A p \in Players :
       (last'.op = "end_game" /\ last'.player = p
          /\ StatusOf(p) \in {"none", "playing"})
       => /\ games' = games
          /\ stats' = stats
          /\ stats_file' = stats_file]_vars

\* C8 amended: end_game leaves the stats ledger unchanged when the player has
\* no session or the session is still playing; without a session the store
\* is unchanged too, while a playing session is removed from the store and
\* the other sessions stay.
C8_EndGameNotTerminal ==
  [][\A p \in Players :
       (last'.op = "end_game" /\ last'.player = p
          /\ StatusOf(p) \in {"none", "playing"})
       => /\ stats' = stats
          /\ stats_file' = stats_file
          /\ StatusOf(p) = "none" => games' = games
          /\ StatusOf(p) = "playing"
               => /\ DOMAIN games' = DOMAIN games \ {p}
                  /\ \A q \in DOMAIN games' : games'[q] = games[q]]_vars

C8_Witness ==
  /\ last.op = "end_game"
  /\ last.was = "playing"
  /\ last.player \notin DOMAIN games
  /\ started[last.player] >= 1

\* 1 while p holds a session that is terminal and not yet finalized
Pending(p) == IF StatusOf(p) \in Terminal THEN 1 ELSE 0

\* C9: a player's record is changed once per terminated session, at its
\* finalization: wins + losses + draws is the number of the player's
\* sessions that reached a terminal status, the one awaiting end_game not
\* yet counted; no counter is negative and no counter ever decreases.
C9_StatsOncePerSession ==
  /\ [](\A p \in Players :
          /\ Total(p) + Pending(p) = terminated[p]
          /\ RecordOf(stats, p).wins >= 0
          /\ RecordOf(stats, p).losses >= 0
          /\ RecordOf(stats, p).draws >= 0)
  /\ [][\A p \in Players :
          /\ RecordOf(stats', p).wins >= RecordOf(stats, p).wins
          /\ RecordOf(stats', p).losses >= RecordOf(stats, p).losses
          /\ RecordOf(stats', p).draws >= RecordOf(stats, p).draws
          /\ Total(p)' <= Total(p) + 1]_vars

C9_Witness ==
  \E p \in Players :
    /\ terminated[p] = 2
    /\ Total(p) = 2
    /\ p \notin DOMAIN games

\* C10: when wait_for times out on a playing session, the command applies a
\* stand, so the session has a terminal status when the handling of the
\* timeout is over.
C10_TimeoutStands ==
  [][\A p \in Players :
       (last'.op = "timeout" /\ last'.player = p)
       => /\ terminated'[p] = terminated[p] + 1
          /\ StatusOf(p)' \in Terminal]_vars

\* the total of a hand with every Ace counted as 1
RECURSIVE HardTotal(_)
HardTotal(h) ==
  IF h = <<>> THEN 0
  ELSE (IF h[1].value = "A" THEN 1 ELSE h[1].numeric_value) + HardTotal(Tail(h))

\* the Aces of a hand
NumAces(h) == Cardinality({ i \in 1..Len(h) : h[i].value = "A" })

\* reference rule: the largest number of Aces that can count 11 without the
\* total exceeding 21, none when even one would bust
RefSoftAces(h) ==
  LET ok == { k \in 0..NumAces(h) : HardTotal(h) + 10 * k <= 21 }
  IN  IF ok = {} THEN 0 ELSE CHOOSE k \in ok : \A j \in ok : j <= k

RefValue(h) == HardTotal(h) + 10 * RefSoftAces(h)

\* C11: the total that _calculate_hand_value returns for a hand is the total
\* of the reference rule (as many Aces as possible count 11 without the total
\* exceeding 21, the other Aces count 1); a hand with exactly one Ace whose
\* other cards sum to at most 10 gets that Ace as 11 and a soft-ace count 1.
C11_GreedyIsReference ==
  scored # NotScored
  => /\ scored.value = RefValue(scored.hand)
     /\ (NumAces(scored.hand) = 1 /\ HardTotal(scored.hand) - 1 <= 10)
          => /\ scored.value = HardTotal(scored.hand) + 10
             /\ scored.soft_aces = 1

\* C12: the value and the soft-ace count that the scorer returns are the same
\* for every order of the hand's cards: what was returned for one order is
\* what the scorer returns for the cards in any other order.
C12_PermutationInvariant ==
  scored # NotScored
  => CalculateHandValueAces(hand_arg) = <<scored.value, scored.soft_aces>>

\* a scored hand with its only Ace first, now held with the Ace last
C12_Witness ==
  /\ scored # NotScored
  /\ Len(hand_arg) = 3
  /\ NumAces(hand_arg) = 1
  /\ scored.hand[1].value = "A"
  /\ hand_arg[3].value = "A"
  /\ scored.value = 16

\* C13: _is_blackjack is true exactly for the hands of two cards whose value
\* is 21, which are exactly the hands of one Ace and one ten-valued card; it
\* is false for a hand of any other length, whatever its value.
C13_IsBlackjack ==
  scored # NotScored
  => /\ scored.blackjack <=> (Len(scored.hand) = 2 /\ scored.value = 21)
     /\ scored.blackjack <=> Natural(scored.hand)
     /\ Len(scored.hand) # 2 => ~scored.blackjack

\* three cards worth 21 are no blackjack
C13_Witness ==
  /\ scored # NotScored
  /\ Len(scored.hand) = 3
  /\ scored.value = 21
  /\ ~scored.blackjack

\* the cards of a list, as a set
CardsOf(d) == { d[i] : i \in 1..Len(d) }

\* C14: _draw_card always returns a card, never None; called on an empty
\* shoe it leaves 51 cards that together with the returned card are the 52
\* cards of a full deck; called on a shoe with cards it returns the last one
\* and leaves the others; the shoe never holds more than 52 cards.
C14_DrawNeverFails ==
  /\ [](Len(deck) \in 0..Len(FullDeck))
  /\ [][last'.op = "_draw_card"
        => /\ last'.ret = "card"
           /\ last'.card # NoCard
           /\ deck = <<>>
                => /\ Len(deck') = Len(FullDeck) - 1
                   /\ CardsOf(deck') \cup {last'.card} = CardsOf(FullDeck)
           /\ deck # <<>>
                => /\ Len(deck') = Len(deck) - 1
                   /\ deck = Append(deck', last'.card)]_vars

\* the shoe ran empty and the next draw refilled it
C14_Witness ==
  /\ last.op = "_draw_card"
  /\ last.was = "empty"
  /\ last.prev = "_draw_card"
  /\ last.ret = "card"
  /\ Len(deck) = Len(FullDeck) - 1
  /\ last.card \notin CardsOf(deck)

\* C15: start_game for a player without a session draws four cards: taken in
\* draw order from the end of the shoe (from a fresh deck once the shoe is
\* empty), the first two are the player hand and the next two the dealer
\* hand, the shoe loses exactly these four, and the session is stored under
\* the player while the other sessions stay.
C15_StartDeals ==
  [][\A p \in Players :
       (last'.op = "start_game" /\ last'.player = p /\ last'.ret = "game")
       => LET g     == games'[p]
              drawn == g.player_hand \o g.dealer_hand
              n     == IF Len(deck) < 4 THEN Len(deck) ELSE 4
          IN  /\ p \notin DOMAIN games
              /\ Len(g.player_hand) = 2
              /\ Len(g.dealer_hand) = 2
              /\ \A i \in 1..n : drawn[i] = deck[Len(deck) + 1 - i]
              /\ IF n = 4
                 THEN deck' = SubSeq(deck, 1, Len(deck) - 4)
                 ELSE \E f \in CreateDeck :
                        /\ deck' = SubSeq(f, 1, Len(f) - (4 - n))
                        /\ \A i \in (n + 1)..4 : drawn[i] = f[Len(f) + 1 - (i - n)]
              /\ DOMAIN games' = DOMAIN games \cup {p}
              /\ \A q \in DOMAIN games : games'[q] = games[q]]_vars

\* a second player was dealt from the shoe the first player's deal left
C15_Witness ==
  /\ last.op = "start_game"
  /\ last.was = "none"
  /\ last.ret = "game"
  /\ Cardinality(DOMAIN games) = 2
  /\ Len(deck) <= Len(FullDeck) - 8
  /\ last.player \in DOMAIN games
  /\ games[last.player].player_hand # games[last.player].dealer_hand

\* C16: end_game on a finished session completes without raising and removes
\* the session also when the stats file cannot be written, so that the
\* player's next start_game is not refused.
C16_SaveFailureNonFatal ==
  [][\A p \in Players :
       (last'.op = "end_game" /\ last'.player = p /\ StatusOf(p) \in Terminal)
       => /\ last'.ret = "None"
          /\ p \notin DOMAIN games']_vars

\* C17: get_player_stats leaves the player with a record: without one it
\* stores a record of three zeros and saves the ledger, with one it changes
\* neither the ledger nor the file; a second call right after changes
\* nothing any more.
C17_GetPlayerStats ==
  [][\A p \in Players :
       (last'.op = "get_player_stats" /\ last'.player = p)
       => /\ last'.ret = "record"
          /\ Str(p) \in DOMAIN stats'
          /\ Str(p) \in DOMAIN stats
               => /\ stats' = stats
                  /\ stats_file' = stats_file
          /\ Str(p) \notin DOMAIN stats
               => /\ stats' = (Str(p) :> ZeroRecord) @@ stats
                  /\ stats_file' = stats'
          /\ GetPlayerStats(stats', stats_file', Str(p))
               = [stats |-> stats', file |-> stats_file']]_vars

\* the record of a player with a counted game was read
C17_Witness ==
  /\ last.op = "get_player_stats"
  /\ last.player \in Players
  /\ Total(last.player) >= 1
  /\ stats_file = stats

\* C18: every session that is started is finalized and removed by the
\* command that started it, on every path of its game loop: once no
\* blackjack command of a player is running any more, the store holds no
\* session of that player (which nothing would finalize and which would
\* refuse every later start_game of the player).
C18_SessionsFinalized ==
  \A p \in Players : pc[p] = "idle" => p \notin DOMAIN games

\* C19: while a player's stand is suspended between dealer draws, the only
\* operation that changes the player's session is the resumption of that
\* stand: the session stays in the store (no finalize) with the same player
\* hand (no hit), no session is started for the player, a start_game of the
\* player is refused and changes nothing, a reaction of the player is not
\* served, and the steps of other players leave the session as it is.
C19_StandExclusive ==
  [][\A p \in Players :
       pc[p] = "stand"
       => /\ p \in DOMAIN games'
          /\ games'[p].player_hand = games[p].player_hand
          /\ started'[p] = started[p]
          /\ ended'[p] = ended[p]
          /\ last'.player = p
               => last'.op \in {"stand_resume", "start_game", "reaction"}
          /\ (last'.player = p /\ last'.op = "start_game")
               => (last'.ret = "None" /\ games' = games /\ deck' = deck)
          /\ (last'.player = p /\ last'.op = "reaction")
               => (last'.ret = "ignored" /\ games' = games /\ deck' = deck)
          /\ games'[p] # games[p]
               => (last'.op = "stand_resume" /\ last'.player = p)]_vars

\* a second blackjack command of the player arrived during the suspended
\* stand, after the dealer had drawn, and was refused
C19_Witness ==
  \E p \in Players :
    /\ pc[p] = "stand"
    /\ last.op = "start_game"
    /\ last.player = p
    /\ last.ret = "None"
    /\ p \in DOMAIN games
    /\ Len(games[p].dealer_hand) > 2
    /\ games[p].status = "playing"

\* C20: a stand that suspends between the dealer's draws ends with the dealer
\* hand and the status that stand without a message gives for the session
\* and the shoe as they were when the stand began, whatever other players do
\* during the suspensions.
C20_PacingSameResult ==
  [][\A p \in Players :
       (last'.op = "stand_resume" /\ last'.player = p /\ last'.ret = "game")
       => \E o \in StandOn(stand_from[p].game, stand_from[p].deck) :
            /\ games'[p].dealer_hand = o.game.dealer_hand
            /\ games'[p].status = o.game.status]_vars

\* C21: the dealer loop of stand ends, after at most 17 draws: every draw is
\* made on a value below 17 and raises the dealer's total with all Aces
\* counted 1 by at least 1, that total never exceeds the scorer's value, so
\* it was below 17 before the last draw; a stand in its loop can always take
\* its next step, and a stand that has returned left the dealer at 17 or more.
C21_DealerLoopEnds ==
  /\ [](\A p \in DOMAIN games :
          LET dh == games[p].dealer_hand
              n  == Len(dh)
          IN  /\ n - 2 <= 17
              /\ HardTotal(dh) <= CalculateHandValue(dh)
              /\ n > 2 => HardTotal(SubSeq(dh, 1, n - 1)) < 17
              /\ pc[p] = "stand" => ENABLED StandResume(p)
              /\ (pc[p] = "loop" /\ games[p].status \in Terminal)
                   => CalculateHandValue(dh) >= 17)
  /\ [][\A p \in Players :
          (last'.op = "stand_resume" /\ last'.player = p /\ last'.ret = "suspended")
          => /\ CalculateHandValue(games[p].dealer_hand) < 17
             /\ Len(games'[p].dealer_hand) = Len(games[p].dealer_hand) + 1
             /\ HardTotal(games'[p].dealer_hand)
                  >= HardTotal(games[p].dealer_hand) + 1]_vars

\* a dealer that stopped after five draws
C21_Witness ==
  \E p \in DOMAIN games :
    /\ pc[p] = "loop"
    /\ games[p].status \in Terminal
    /\ Len(games[p].dealer_hand) = 7
    /\ CalculateHandValue(games[p].dealer_hand) >= 17

\* C22: the shoe never holds the same (suit, rank) twice; the cards in the
\* shoe and the cards drawn since the shoe was last filled are disjoint and
\* together exactly the 52 cards of a deck; every draw removes exactly the
\* card it returns, so that N draws remove N cards, refills counted.
C22_ShoeConserved ==
  /\ [](/\ Cardinality(CardsOf(deck)) = Len(deck)
        /\ CardsOf(deck) \subseteq CardsOf(FullDeck)
        /\ Cardinality(CardsOf(FullDeck)) = Len(FullDeck)
        /\ last.op = "_draw_card"
             => /\ Cardinality(CardsOf(last.out)) = Len(last.out)
                /\ CardsOf(last.out) \cap CardsOf(deck) = {}
                /\ CardsOf(last.out) \cup CardsOf(deck) = CardsOf(FullDeck)
                /\ Len(last.out) + Len(deck) = Len(FullDeck)
                /\ last.out[Len(last.out)] = last.card)
  /\ [][last'.op = "_draw_card"
        => /\ last'.card \notin CardsOf(deck')
           /\ Len(deck') = IF deck = <<>> THEN Len(FullDeck) - 1 ELSE Len(deck) - 1
           /\ deck # <<>> => CardsOf(deck) = CardsOf(deck') \cup {last'.card}]_vars

\* a generation of the shoe, half drawn
C22_Witness ==
  /\ last.op = "_draw_card"
  /\ last.prev = "_draw_card"
  /\ Len(last.out) = 26
  /\ Len(deck) = 26
  /\ last.out[1] \in CardsOf(FullDeck)

\* C23: start_game, hit, stand and end_game called for one player leave the
\* session of every other player (its hands and its status, and whether there
\* is one) and the stats record of every other player (and whether there is
\* one) as they were.
C23_OthersUntouched ==
  [][\A p \in Players :
       (last'.player = p /\ last'.op \in {"start_game", "hit", "stand", "end_game"})
       => \A q \in Players \ {p} :
            /\ q \in DOMAIN games' <=> q \in DOMAIN games
            /\ q \in DOMAIN games
                 => /\ games'[q].player_hand = games[q].player_hand
                    /\ games'[q].dealer_hand = games[q].dealer_hand
                    /\ games'[q].status = games[q].status
            /\ Str(q) \in DOMAIN stats' <=> Str(q) \in DOMAIN stats
            /\ Str(q) \in DOMAIN stats => stats'[Str(q)] = stats[Str(q)]]_vars

\* a game was finalized while another player had a session and a record
C23_Witness ==
  /\ last.op = "end_game"
  /\ last.was \in Terminal
  /\ \E q \in DOMAIN games :
       /\ q # last.player
       /\ Len(games[q].player_hand) >= 2
       /\ Str(q) \in DOMAIN stats
       /\ stats[Str(q)].wins + stats[Str(q)].losses + stats[Str(q)].draws >= 1

\* what the player of the session g can receive from its next hit or stand
\* when the shoe is d: the sessions these calls can leave
Receives(g, d) ==
  [hit   |-> { o.game : o \in HitOn(g, d) },
   stand |-> { o.game : o \in StandOn(g, d) }]

\* C24: a player's game does not depend on what other players do: an
\* operation of another player leaves the cards and the status that a player
\* in play receives from its next hit or stand as they were, so that two runs
\* with the same events of the player and different operations of the others
\* give the player the same cards and the same final status.
C24_Independent ==
  [][\A p \in DOMAIN games :
       (last'.player # p /\ games[p].status = "playing")
       => /\ p \in DOMAIN games'
          /\ Receives(games'[p], deck') = Receives(games[p], deck)]_vars

\* C25: a session with status playing holds a player hand worth at most 20,
\* by the scorer of the engine and by the reference rule alike, whether or
\* not a stand is suspended on it: a 21 on two cards is resolved by
\* start_game, and a hit that reaches 21 or more leaves a terminal status.
C25_PlayingAtMost20 ==
  \A p \in DOMAIN games :
    games[p].status = "playing"
    => /\ CalculateHandValue(games[p].player_hand) <= 20
       /\ RefValue(games[p].player_hand) <= 20

\* a player who holds 20 after a hit and is still in play
C25_Witness ==
  /\ last.op = "hit"
  /\ last.ret = "game"
  /\ last.player \in DOMAIN games
  /\ pc[last.player] = "loop"
  /\ games[last.player].status = "playing"
  /\ Len(games[last.player].player_hand) >= 3
  /\ CalculateHandValue(games[last.player].player_hand) = 20

\* C26: a session with status player_win holds a player hand worth at most
\* 21, and a session whose player hand is worth more than 21 has status
\* dealer_win, by the scorer of the engine and by the reference rule alike:
\* a busted player is never recorded as a win or a tie.
C26_BustLoses ==
  \A p \in DOMAIN games :
    LET ph == games[p].player_hand
    IN  /\ games[p].status = "player_win"
             => CalculateHandValue(ph) <= 21 /\ RefValue(ph) <= 21
        /\ (CalculateHandValue(ph) > 21 \/ RefValue(ph) > 21)
             => games[p].status = "dealer_win"

\* a player busted by a hit, and another who won with 21 or less
C26_Witness ==
  /\ last.op = "hit"
  /\ last.player \in DOMAIN games
  /\ RefValue(games[last.player].player_hand) > 21
  /\ games[last.player].status = "dealer_win"
  /\ \E q \in DOMAIN games :
       /\ games[q].status = "player_win"
       /\ Len(games[q].dealer_hand) > 2

\* start_game without the up-card test: the status from the two naturals only
SimpleStatus(player_hand, dealer_hand) ==
  IF Natural(player_hand)
  THEN IF Natural(dealer_hand) THEN "tie" ELSE "player_win"
  ELSE IF Natural(dealer_hand) THEN "dealer_win" ELSE "playing"

\* C27: for every four cards dealt, the status that start_game gives is the
\* status decided from the two naturals alone, without the up-card test; a
\* dealer hand whose first card fails _has_ten_or_ace is not a natural.
C27_UpcardTestRedundant ==
  \A p \in DOMAIN games :
    LET g == games[p]
    IN  /\ Len(g.player_hand) = 2
        /\ Len(g.dealer_hand) = 2
        /\ g.status = SimpleStatus(g.player_hand, g.dealer_hand)
        /\ g.dealer_hand[1].value \notin {"10", "J", "Q", "K", "A"}
             => ~Natural(g.dealer_hand) /\ ~IsBlackjack(g.dealer_hand)

\* a player's natural against a dealer who shows an Ace and holds a natural
C27_Witness ==
  /\ last.op = "start_game"
  /\ last.ret = "game"
  /\ Stander \in DOMAIN games
  /\ Natural(games[Stander].player_hand)
  /\ games[Stander].dealer_hand[1].value = "A"
  /\ games[Stander].dealer_hand[2].value = "K"
  /\ games[Stander].status = "tie"

\* the open tickets of user u whose channel still exists
OpenTickets(u) ==
  { n \in DOMAIN tickets : /\ tickets[n].user_id = u
                           /\ tickets[n].status = "open"
                           /\ n \in channels }

\* C28: a user has at most one open ticket whose channel still exists, also
\* when two reactions of the user are handled in interleaved fashion.
C28_OneOpenTicket == \A u \in Players : Cardinality(OpenTickets(u)) <= 1

\* C29: the status of a ticket changes only from 'open' to 'closed', and a
\* closed ticket is never open again; a ticket is 'closed' only when a transcript
\* message was sent for it; a close_ticket that finds the ticket unknown or
\* not open, or the transcript channel unset or unavailable, returns False
\* and changes neither the tickets nor the channels nor the transcripts.
C29_ClosedAfterTranscript ==
  /\ [](\A n \in DOMAIN tickets : tickets[n].status = "closed" => transcripts[n] >= 1)
  /\ [][\A n \in DOMAIN tickets \cap DOMAIN tickets' :
          /\ tickets'[n].status # tickets[n].status
               => tickets[n].status = "open" /\ tickets'[n].status = "closed"
          /\ tickets[n].status = "closed" => tickets'[n].status = "closed"]_vars
  /\ [][\A h \in Handlers :
          LET n == handler[h].ticket
          IN  (/\ last'.op = "close_ticket"
               /\ last'.handler = h
               /\ \/ /\ handler[h].pc = "defer"
                     /\ \/ n \notin DOMAIN tickets
                        \/ tickets[n].status # "open"
                        \/ transcript_channel_id = "None"
                        \/ ~log_channel
                  \/ handler[h].pc = "send" /\ ~log_channel)
              => /\ last'.ret = "False"
                 /\ handler'[h].pc = "idle"
                 /\ tickets' = tickets
                 /\ tickets_file' = tickets_file
                 /\ channels' = channels
                 /\ transcripts' = transcripts]_vars

\* a ticket was closed with its transcript, and then a close_ticket for an
\* open ticket returned False because the transcript channel was gone
C29_Witness ==
  /\ last.op = "close_ticket"
  /\ last.ret = "False"
  /\ last.was = "defer"
  /\ last.ticket \in DOMAIN tickets
  /\ tickets[last.ticket].status = "open"
  /\ last.ticket \in channels
  /\ ~log_channel
  /\ \E m \in DOMAIN tickets : tickets[m].status = "closed" /\ transcripts[m] = 1

\* C30: for each ticket at most one transcript is sent and the status is set
\* to 'closed' at most once, also when two presses of the close button of the
\* ticket are handled in interleaved fashion.
C30_ClosedOnce ==
  \A n \in 1..MaxTickets : transcripts[n] <= 1 /\ closes[n] <= 1

====
